---- MODULE Spec2Model ----
(***************************************************************************)
(* Airport security checkpoint simulation (AirportSecuritySim).            *)
(*                                                                         *)
(* Three programs share one structure: central_queue.py (one shared pool   *)
(* per stage), multiple_queues_random_selection.py (lanes, random lane)    *)
(* and multiple_queues_dynamic_selection_optimal.py (lanes, least loaded   *)
(* lane).  Each drives generator processes on a discrete-event scheduler:  *)
(* a heap of events ordered by (time, priority, insertion id).  The model  *)
(* keeps that heap, the resources' users and put queues, every passenger   *)
(* process's position, and the module-level list wait_times.               *)
(*                                                                         *)
(* Time is counted in ticks of 0.1 simulated minute.                       *)
(***************************************************************************)
EXTENDS Integers, Sequences, FiniteSets, TLC

VARIABLES
    policy,             \* which program: "central", "random" or "greedy"
    num_lanes,          \* run_airport's num_lanes argument
    script,             \* running_time arguments of the run_airport calls still to make
    source,             \* the random source: the gaps expovariate may return, and the
                        \* number of arrivals after which the gap drawn ends after the run
    run,                \* number of run_airport invocations made so far
    phase,              \* "idle", "running", "stopped", "crashed"
    error,              \* exception that left the program, or "none"
    now,                \* env.now
    running_time,       \* run_airport's running_time argument of the current run
    queue,              \* env._queue: the scheduled events, in heap order
    eid,                \* env._eid: next insertion id
    lanes,              \* the resources: lanes[l][stage] = [capacity, users, queue]
    pass,               \* the check_passenger processes of the current run
    i,                  \* passenger_arrivals' counter i
    mean_interarrival,  \* passenger_arrivals' local mean_interarrival (ticks)
    wait_times,         \* the module-level list wait_times
    summary,            \* outcome of the last calculate_wait_time call
    last,               \* history: the event popped by the last step
    reqLog,             \* history: per resource, the passengers in request() call order
    startLog            \* history: per resource, <<passenger, time>> in order of service start

vars == <<policy, num_lanes, script, source, run, phase, error, now, running_time, queue, eid,
          lanes, pass, i, mean_interarrival, wait_times, summary, last, reqLog, startLog>>

-----------------------------------------------------------------------------
(* Program constants, in ticks where they are times. *)

BoardingLow == 3
BoardingHigh == 7
BaggageLow == 20
BaggageHigh == 30
BodyLow == 5
BodyHigh == 10

NumOfficers == 2
NumBaggageScreeners == 6
NumBodyScreeners == 2
LaneCapacity == 1
InitialPassengers == 2
InitialPerLane == 2

PeakStart == 100
PeakEnd == 500
MeanNonPeak == 10
MeanPeak == 5

MainRunningTime == 600
MainLanes == 4

URGENT == 0
NORMAL == 1

(* Bounds of the model. *)
MaxArrivals == 1

\* lanes whose pool states are enumerated for choose_dynamic_lane
MaxLanes == 2

Stages == 0 .. 2

Policies == {"central", "random", "greedy"}

(* The service durations the random source may return: the two ends of    *)
(* each uniform(low, high).                                                *)
ServiceTimes(stage) ==
    CASE stage = 0 -> {BoardingLow, BoardingHigh}
      [] stage = 1 -> {BaggageLow, BaggageHigh}
      [] stage = 2 -> {BodyLow, BodyHigh}

(* The interarrival gaps the random source may return (expovariate is any *)
(* float >= 0.0).                                                          *)
Gaps == {0, 3, 20}

(* A random source that returns the gaps gs for the first n arrivals.      *)
Source(gs, n) == [gaps |-> gs, arrivals |-> n]

(* The run_airport calls a process makes: <<running_time, ...>>.           *)
Scenarios ==
       [policy : Policies, num_lanes : {1}, script : {<<MainRunningTime>>},
        source : {Source(Gaps, MaxArrivals)}]
  \cup [policy : Policies, num_lanes : {1, 2}, script : {<<3>>, <<28>>},
        source : {Source(Gaps, MaxArrivals)}]
  \cup [policy : {"random", "greedy"}, num_lanes : {0}, script : {<<28>>},
        source : {Source(Gaps, MaxArrivals)}]
  \cup [policy : Policies, num_lanes : {1}, script : {<<29, 3>>, <<3, 29>>},
        source : {Source(Gaps, MaxArrivals)}]

(* A few short runs that go through every step of the three programs.     *)
CoverScenarios ==
       [policy : {"central"}, num_lanes : {1}, script : {<<29>>},
        source : {Source({3}, MaxArrivals)}]
  \cup [policy : {"random", "greedy"}, num_lanes : {0, 1}, script : {<<4>>},
        source : {Source({3}, MaxArrivals)}]

(* main's four lanes under the least-loaded policy, with arrivals while    *)
(* the initial passengers are at the officers.                             *)
Greedy4Scenarios ==
    [policy : {"greedy"}, num_lanes : {MainLanes}, script : {<<4>>},
     source : {Source({0, 3}, MaxArrivals + 1)}]

(* main's run of central_queue.py with gaps that carry the arrivals across  *)
(* both changes of the arrival rate.                                        *)
RateScenarios ==
    [policy : {"central"}, num_lanes : {MainLanes}, script : {<<MainRunningTime>>},
     source : {Source({PeakStart, PeakEnd - PeakStart}, 2)}]

(* The three programs over main's 60 minutes, one lane, a generated         *)
(* passenger arriving while the initial ones are served.                    *)
LongScenarios ==
    [policy : Policies, num_lanes : {1}, script : {<<MainRunningTime>>},
     source : {Source({3}, 1)}]

(* The lane programs asked for no lane at all.                              *)
ZeroLaneScenarios ==
    [policy : {"random", "greedy"}, num_lanes : {0}, script : {<<MainRunningTime>>},
     source : {Source({3}, 1)}]

-----------------------------------------------------------------------------
(* The event heap. *)

Event(time, prio, id, kind, p, lane, stage) ==
    [time |-> time, prio |-> prio, eid |-> id, kind |-> kind, p |-> p,
     lane |-> lane, stage |-> stage]

NoEvent == Event(0, 0, 0, "none", 0, 0, 0)

\* an order that runs the normal events in the order of their schedule calls,
\* whatever their time
BeforeInCallOrder(e, f) ==
    IF e.prio = NORMAL /\ f.prio = NORMAL
    THEN e.eid < f.eid
    ELSE e.time < f.time \/ (e.time = f.time /\ e.prio < f.prio)
                        \/ (e.time = f.time /\ e.prio = f.prio /\ e.eid < f.eid)

\* an order that forgets the priority
BeforeIgnoringPriority(e, f) == e.time < f.time \/ (e.time = f.time /\ e.eid < f.eid)

\* heap order of env._queue: (time, priority, eid)
Before(e, f) ==
    \/ e.time < f.time
    \/ e.time = f.time /\ e.prio < f.prio
    \/ e.time = f.time /\ e.prio = f.prio /\ e.eid < f.eid

\* heappush: queue is kept as the sequence of its events in heap order
Schedule(q, e) ==
    LET k == Cardinality({j \in 1 .. Len(q) : Before(q[j], e)})
    IN SubSeq(q, 1, k) \o <<e>> \o SubSeq(q, k + 1, Len(q))

\* several schedule calls, in call order
RECURSIVE Push(_, _)
Push(q, evs) == IF evs = <<>> THEN q ELSE Push(Schedule(q, Head(evs)), Tail(evs))

\* heappop: the event env.step() pops next
Top == Head(queue)

\* env.step() is about to pop an event of this kind
Popping(kind) ==
    /\ phase = "running"
    /\ queue # <<>>
    /\ Top.kind = kind

-----------------------------------------------------------------------------
(* simpy.Resource: users hold the slots, queue is the FIFO put queue. *)

Resource(capacity) == [capacity |-> capacity, users |-> <<>>, queue |-> <<>>]

\* resource.count
Count(res) == Len(res.users)

\* a _do_put that admits every request
DoPutUnchecked(res) == TRUE

\* a _do_put whose capacity test is off by one
DoPutOffByOne(res) == Count(res) < res.capacity - 1

\* Resource._do_put: a request is admitted while a slot is free
DoPut(res) == Count(res) < res.capacity

\* a _trigger_put that serves the newest request first
NewestInLine(res) == res.queue[Len(res.queue)]

\* the request _trigger_put examines: the head of the put queue
NextInLine(res) == Head(res.queue)

\* BaseResource._trigger_put: one pass over the put queue, which stops after
\* the first request it examines (_do_put returns None)
TriggerPut(res) ==
    IF res.queue # <<>> /\ DoPut(res)
    THEN LET h == NextInLine(res) IN
         [res |-> [res EXCEPT !.users = Append(@, h),
                              !.queue = SelectSeq(@, LAMBDA w : w # h)],
          granted |-> h]
    ELSE [res |-> res, granted |-> 0]

\* a request() that takes a free slot itself, whoever is queued
RequestBarging(res, p) ==
    IF DoPut(res)
    THEN [res |-> [res EXCEPT !.users = Append(@, p)], granted |-> p]
    ELSE [res |-> [res EXCEPT !.queue = Append(@, p)], granted |-> 0]

\* resource.request() by passenger p: the Request joins the put queue and
\* _trigger_put runs at once
Request(res, p) == TriggerPut([res EXCEPT !.queue = Append(@, p)])

\* a with block whose end releases nothing
ReleaseNothing(res, p) == res

\* a release that frees the slot of whoever was granted first
ReleaseFirst(res, p) == [res EXCEPT !.users = IF @ = <<>> THEN @ ELSE Tail(@)]

\* resource.release(req) at the end of the with block: the request leaves users
Release(res, p) == [res EXCEPT !.users = SelectSeq(@, LAMBDA u : u # p)]

-----------------------------------------------------------------------------
(* AirportSecurity.__init__ *)

\* central_queue.py: one resource per stage, shared by everybody (group 0)
CentralSecurity ==
    [l \in {0} |->
        [s \in Stages |->
            Resource(CASE s = 0 -> NumOfficers
                       [] s = 1 -> NumBaggageScreeners
                       [] s = 2 -> NumBodyScreeners)]]

\* the lane programs: num_lanes lanes of three resources of capacity 1
LaneSecurity(n) ==
    [l \in 0 .. n - 1 |-> [s \in Stages |-> Resource(LaneCapacity)]]

Security(pol, n) == IF pol = "central" THEN CentralSecurity ELSE LaneSecurity(n)

-----------------------------------------------------------------------------
(* choose_dynamic_lane *)

Infinity == -1

EffectiveLoad(res) ==
    Len(res.queue) + (IF Count(res) >= res.capacity THEN 1 ELSE 0)

TotalLoad(lane) == EffectiveLoad(lane[0]) + EffectiveLoad(lane[1]) + EffectiveLoad(lane[2])

\* a comparison the wrong way round: the most loaded lane wins
MoreLoad(total_load, best_load) == best_load = Infinity \/ total_load > best_load

\* a comparison that lets a later lane win a tie
LessOrEqualLoad(total_load, best_load) == best_load = Infinity \/ total_load <= best_load

\* total_load < best_load, best_load starting at float('inf')
LessLoad(total_load, best_load) == best_load = Infinity \/ total_load < best_load

RECURSIVE ChooseLoop(_, _, _, _)
ChooseLoop(ls, lane_index, best_lane_index, best_load) ==
    IF lane_index \notin DOMAIN ls
    THEN best_lane_index
    ELSE IF LessLoad(TotalLoad(ls[lane_index]), best_load)
         THEN ChooseLoop(ls, lane_index + 1, lane_index, TotalLoad(ls[lane_index]))
         ELSE ChooseLoop(ls, lane_index + 1, best_lane_index, best_load)

\* returns best_lane_index: -1 when there is no lane (best_lane is None)
choose_dynamic_lane(ls) == ChooseLoop(ls, 0, -1, Infinity)

-----------------------------------------------------------------------------
(* get_mean_interarrival_time *)

\* the thresholds of the docstring (15 and 45 minutes) instead of the code's
DocstringMean(current_time) ==
    IF current_time < 150 THEN MeanNonPeak
    ELSE IF current_time < 450 THEN MeanPeak
    ELSE MeanNonPeak

get_mean_interarrival_time(current_time) ==
    IF current_time < PeakStart THEN MeanNonPeak
    ELSE IF current_time < PeakEnd THEN MeanPeak
    ELSE MeanNonPeak

\* the gaps random.expovariate may return for the next arrival; once the
\* model's bound on arrivals is reached the gap drawn ends after the run
NextGaps(spawned, t) ==
    IF spawned < source.arrivals THEN source.gaps ELSE {running_time + 1 - t}

-----------------------------------------------------------------------------
(* The passengers: one check_passenger process each. *)

\* a process created by env.process(check_passenger(...)) that has not run yet;
\* lane is the assigned_lane argument, -1 for None; spawned is history, the
\* time of the env.process call
NewPassenger(lane, t) ==
    [pc |-> "Created", stage |-> 0, lane |-> lane, arrival_time |-> 0, spawned |-> t]

\* the initial passengers of run_airport, in creation order
InitialPass(pol, n) ==
    IF pol = "central"
    THEN [k \in 1 .. InitialPassengers |-> NewPassenger(-1, 0)]
    ELSE [k \in 1 .. n * InitialPerLane |-> NewPassenger((k - 1) \div InitialPerLane, 0)]

EmptyLog(ls) == [r \in (DOMAIN ls) \X Stages |-> <<>>]

NoSummary == [kind |-> "none", run |-> 0, mins |-> 0, secs |-> 0, n |-> 0]

\* the process before its first run_airport call, for a set of scenarios
InitOf(scenarios) ==
    /\ \E sc \in scenarios :
          /\ policy = sc.policy
          /\ num_lanes = sc.num_lanes
          /\ script = sc.script
          /\ source = sc.source
    /\ run = 0
    /\ phase = "idle"
    /\ error = "none"
    /\ now = 0
    /\ running_time = 0
    /\ queue = <<>>
    /\ eid = 0
    /\ lanes = Security(policy, num_lanes)
    /\ pass = <<>>
    /\ i = 0
    /\ mean_interarrival = 0
    /\ wait_times = <<>>
    /\ summary = NoSummary
    /\ last = NoEvent
    /\ reqLog = EmptyLog(lanes)
    /\ startLog = EmptyLog(lanes)

Init == InitOf(Scenarios)

-----------------------------------------------------------------------------
(* run_airport(running_time, num_lanes) *)

\* a stop event that runs after the events due at the horizon
UntilInclusive(h, id) == Event(h, NORMAL + 1, id, "Until", 0, 0, 0)

\* env.run(until=running_time): the stop event, scheduled URGENT at the
\* horizon, "before all regular timeouts"
Until(h, id) == Event(h, URGENT, id, "Until", 0, 0, 0)

\* wait_times as a new run finds it: the module-level list is never cleared
WaitTimesAtRunStart == wait_times

RunAirport ==
    /\ phase \in {"idle", "stopped"}
    /\ script # <<>>
    /\ LET h == Head(script)
           ps == InitialPass(policy, num_lanes)
           n == Len(ps)
       IN /\ script' = Tail(script)
          /\ run' = run + 1
          /\ phase' = "running"
          /\ now' = 0
          /\ running_time' = h
          /\ lanes' = Security(policy, num_lanes)
          /\ pass' = ps
          /\ queue' = Push([k \in 1 .. n |-> Event(0, URGENT, k - 1, "Initialize", k, 0, 0)],
                           <<Event(0, URGENT, n, "InitializeArrivals", 0, 0, 0),
                             Until(h, n + 1)>>)
          /\ eid' = n + 2
          /\ i' = 0
          /\ mean_interarrival' = 0
          /\ wait_times' = WaitTimesAtRunStart
          /\ last' = NoEvent
          /\ reqLog' = EmptyLog(lanes)
          /\ startLog' = EmptyLog(lanes)
    /\ UNCHANGED <<source, policy, num_lanes, error, summary>>

-----------------------------------------------------------------------------
(* check_passenger *)

\* the first lines of check_passenger for passenger p once its lane l is
\* known: arrival_time = env.now, then request the officer of the lane
Arrive(p, l) ==
    LET e == Top
        r == Request(lanes[l][0], p)
        granted == IF r.granted = 0 THEN <<>>
                   ELSE <<Event(e.time, NORMAL, eid, "Request", r.granted, l, 0)>>
    IN /\ now' = e.time
       /\ last' = e
       /\ lanes' = [lanes EXCEPT ![l][0] = r.res]
       /\ pass' = [pass EXCEPT ![p] = [@ EXCEPT !.pc = "AwaitingStage", !.lane = l,
                                                 !.arrival_time = e.time]]
       /\ queue' = Push(Tail(queue), granted)
       /\ eid' = eid + Len(granted)
       /\ reqLog' = [reqLog EXCEPT ![<<l, 0>>] = Append(@, p)]
       /\ UNCHANGED <<source, policy, num_lanes, script, run, phase, error, running_time, i,
                      mean_interarrival, wait_times, summary, startLog>>

\* the process raises before its first yield: the failed process event is
\* scheduled and the exception leaves env.run when that event is popped
Fail(p, exc) ==
    LET e == Top IN
    /\ now' = e.time
    /\ last' = e
    /\ pass' = [pass EXCEPT ![p] = [@ EXCEPT !.pc = "Failed", !.arrival_time = e.time]]
    /\ queue' = Schedule(Tail(queue), Event(e.time, NORMAL, eid, exc, p, 0, 0))
    /\ eid' = eid + 1
    /\ UNCHANGED <<source, policy, num_lanes, script, run, phase, error, running_time, lanes, i,
                   mean_interarrival, wait_times, summary, reqLog, startLog>>

\* central_queue.py: every passenger uses the shared resources
StartCentral ==
    /\ Popping("Initialize")
    /\ policy = "central"
    /\ Arrive(Top.p, 0)

\* the lane programs, assigned_lane given (the initial passengers)
StartAssigned ==
    /\ Popping("Initialize")
    /\ policy # "central"
    /\ pass[Top.p].lane # -1
    /\ Arrive(Top.p, pass[Top.p].lane)

\* lane = random.choice(security.lanes)
StartRandom ==
    /\ Popping("Initialize")
    /\ policy = "random"
    /\ pass[Top.p].lane = -1
    /\ \/ \E l \in DOMAIN lanes : Arrive(Top.p, l)
       \/ /\ DOMAIN lanes = {}
          /\ Fail(Top.p, "IndexError")

\* lane, assigned_lane_index = choose_dynamic_lane(security)
StartDynamic ==
    /\ Popping("Initialize")
    /\ policy = "greedy"
    /\ pass[Top.p].lane = -1
    /\ LET assigned_lane_index == choose_dynamic_lane(lanes) IN
       \/ /\ assigned_lane_index # -1
          /\ Arrive(Top.p, assigned_lane_index)
       \/ /\ assigned_lane_index = -1
          /\ Fail(Top.p, "TypeError")

\* yield req returns: the passenger starts the stage's sub-process
BeginService ==
    /\ Popping("Request")
    /\ LET e == Top
           p == e.p
       IN /\ now' = e.time
          /\ last' = e
          /\ pass' = [pass EXCEPT ![p].pc = "InService"]
          /\ queue' = Schedule(Tail(queue),
                               Event(e.time, URGENT, eid, "InitializeStage", p, e.lane, e.stage))
          /\ eid' = eid + 1
          /\ startLog' = [startLog EXCEPT ![<<e.lane, e.stage>>] = Append(@, <<p, e.time>>)]
    /\ UNCHANGED <<source, policy, num_lanes, script, run, phase, error, running_time, lanes, i,
                   mean_interarrival, wait_times, summary, reqLog>>

\* check_boarding_pass / scan_baggage / scan_body: yield env.timeout(uniform)
StageTimeout ==
    /\ Popping("InitializeStage")
    /\ LET e == Top IN
       \E d \in ServiceTimes(e.stage) :
          /\ now' = e.time
          /\ last' = e
          /\ queue' = Schedule(Tail(queue),
                               Event(e.time + d, NORMAL, eid, "Timeout", e.p, e.lane, e.stage))
          /\ eid' = eid + 1
    /\ UNCHANGED <<source, policy, num_lanes, script, run, phase, error, running_time, lanes, pass,
                   i, mean_interarrival, wait_times, summary, reqLog, startLog>>

\* the timeout fires: the stage's sub-process ends and its Process event is
\* scheduled
StageEnds ==
    /\ Popping("Timeout")
    /\ LET e == Top IN
          /\ now' = e.time
          /\ last' = e
          /\ queue' = Schedule(Tail(queue),
                               Event(e.time, NORMAL, eid, "Process", e.p, e.lane, e.stage))
          /\ eid' = eid + 1
    /\ UNCHANGED <<source, policy, num_lanes, script, run, phase, error, running_time, lanes, pass,
                   i, mean_interarrival, wait_times, summary, reqLog, startLog>>

\* a total_time that forgets the arrival time
TotalTimeFromZero(t, arrival_time) == t

\* total_time = env.now - arrival_time
TotalTime(t, arrival_time) == t - arrival_time

\* the entry check_passenger appends to wait_times: the code keeps total_time;
\* run, p, arrival_time and departure_time are history
Record(p, t) ==
    [run |-> run, p |-> p, arrival_time |-> pass[p].arrival_time, departure_time |-> t,
     total_time |-> TotalTime(t, pass[p].arrival_time)]

\* a passenger that goes from the boarding pass check to the body screening
SkipBaggage(s) == IF s = 0 THEN 2 ELSE s + 1

\* the stage a passenger turns to after stage s
NextStageOf(s) == s + 1

\* a passenger that changes to the neighbouring lane for the baggage scan
NeighbourLane(l, s) == IF s = 1 THEN (l + 1) % Cardinality(DOMAIN lanes) ELSE l

\* the lane whose resource check_passenger requests for stage s: its local
\* variable lane, bound once before the first request
LaneAt(l, s) == l

\* the stage's Process event is popped and check_passenger resumes: the with
\* block ends (release), and the passenger requests the next stage's resource
MoveOn ==
    /\ Popping("Process")
    /\ Top.stage < 2
    /\ LET e == Top
           p == e.p
           l == e.lane
           s == NextStageOf(e.stage)
           n == LaneAt(l, s)
           released == [lanes EXCEPT ![l][e.stage] = Release(@, p)]
           r == Request(released[n][s], p)
           granted == IF r.granted = 0 THEN <<>>
                      ELSE <<Event(e.time, NORMAL, eid + 1, "Request", r.granted, n, s)>>
       IN /\ now' = e.time
          /\ last' = e
          /\ lanes' = [released EXCEPT ![n][s] = r.res]
          /\ pass' = [pass EXCEPT ![p].pc = "AwaitingStage", ![p].stage = s]
          /\ queue' = Push(Tail(queue),
                           <<Event(e.time, NORMAL, eid, "Release", 0, l, e.stage)>> \o granted)
          /\ eid' = eid + 1 + Len(granted)
          /\ reqLog' = [reqLog EXCEPT ![<<n, s>>] = Append(@, p)]
    /\ UNCHANGED <<source, policy, num_lanes, script, run, phase, error, running_time, i,
                   mean_interarrival, wait_times, summary, startLog>>

\* after the body screening: release, wait_times.append(total_time), and the
\* process ends (its own Process event is scheduled)
Depart ==
    /\ Popping("Process")
    /\ Top.stage = 2
    /\ LET e == Top
           p == e.p
           l == e.lane
       IN /\ now' = e.time
          /\ last' = e
          /\ lanes' = [lanes EXCEPT ![l][e.stage] = Release(@, p)]
          /\ pass' = [pass EXCEPT ![p].pc = "Departed"]
          /\ wait_times' = Append(wait_times, Record(p, e.time))
          /\ queue' = Push(Tail(queue),
                           <<Event(e.time, NORMAL, eid, "Release", 0, l, e.stage),
                             Event(e.time, NORMAL, eid + 1, "ProcessEnded", p, 0, 0)>>)
          /\ eid' = eid + 2
    /\ UNCHANGED <<source, policy, num_lanes, script, run, phase, error, running_time, i,
                   mean_interarrival, summary, reqLog, startLog>>

\* a Release event is popped: its callback is the resource's _trigger_put
Handoff ==
    /\ Popping("Release")
    /\ LET e == Top
           r == TriggerPut(lanes[e.lane][e.stage])
           granted == IF r.granted = 0 THEN <<>>
                      ELSE <<Event(e.time, NORMAL, eid, "Request", r.granted, e.lane, e.stage)>>
       IN /\ now' = e.time
          /\ last' = e
          /\ lanes' = [lanes EXCEPT ![e.lane][e.stage] = r.res]
          /\ queue' = Push(Tail(queue), granted)
          /\ eid' = eid + Len(granted)
    /\ UNCHANGED <<source, policy, num_lanes, script, run, phase, error, running_time, pass, i,
                   mean_interarrival, wait_times, summary, reqLog, startLog>>

\* the Process event of a finished check_passenger is popped: nobody waits
\* for it
PopEnded ==
    /\ Popping("ProcessEnded")
    /\ now' = Top.time
    /\ last' = Top
    /\ queue' = Tail(queue)
    /\ UNCHANGED <<source, policy, num_lanes, script, run, phase, error, running_time, eid, lanes,
                   pass, i, mean_interarrival, wait_times, summary, reqLog, startLog>>

\* the event of a failed process is popped: env.step raises its exception,
\* which leaves env.run and run_airport
Crash ==
    /\ phase = "running"
    /\ queue # <<>>
    /\ Top.kind \in {"IndexError", "TypeError"}
    /\ now' = Top.time
    /\ last' = Top
    /\ queue' = Tail(queue)
    /\ phase' = "crashed"
    /\ error' = Top.kind
    /\ UNCHANGED <<source, policy, num_lanes, script, run, running_time, eid, lanes, pass, i,
                   mean_interarrival, wait_times, summary, reqLog, startLog>>

-----------------------------------------------------------------------------
(* passenger_arrivals *)

\* the generator starts: the first mean and the first gap
FirstGap ==
    /\ Popping("InitializeArrivals")
    /\ LET e == Top IN
       \E gap \in NextGaps(i, e.time) :
          /\ now' = e.time
          /\ last' = e
          /\ mean_interarrival' = get_mean_interarrival_time(e.time)
          /\ queue' = Schedule(Tail(queue),
                               Event(e.time + gap, NORMAL, eid, "Arrival", 0, 0, 0))
          /\ eid' = eid + 1
    /\ UNCHANGED <<source, policy, num_lanes, script, run, phase, error, running_time, lanes, pass,
                   i, wait_times, summary, reqLog, startLog>>

\* the gap's timeout fires: i += 1, a new check_passenger process is created,
\* and the loop draws the next gap
Arrival ==
    /\ Popping("Arrival")
    /\ LET e == Top
           p == Len(pass) + 1
       IN /\ now' = e.time
          /\ last' = e
          /\ i' = i + 1
          /\ pass' = Append(pass, NewPassenger(-1, e.time))
          /\ mean_interarrival' = get_mean_interarrival_time(e.time)
          /\ \E gap \in NextGaps(i + 1, e.time) :
                queue' = Push(Tail(queue),
                              <<Event(e.time, URGENT, eid, "Initialize", p, 0, 0),
                                Event(e.time + gap, NORMAL, eid + 1, "Arrival", 0, 0, 0)>>)
          /\ eid' = eid + 2
    /\ UNCHANGED <<source, policy, num_lanes, script, run, phase, error, running_time, lanes,
                   wait_times, summary, reqLog, startLog>>

-----------------------------------------------------------------------------
(* env.run(until=running_time): the stop event is popped *)

Stop ==
    /\ Popping("Until")
    /\ now' = Top.time
    /\ last' = Top
    /\ queue' = Tail(queue)
    /\ phase' = "stopped"
    /\ UNCHANGED <<source, policy, num_lanes, script, run, error, running_time, eid, lanes, pass,
                   i, mean_interarrival, wait_times, summary, reqLog, startLog>>

-----------------------------------------------------------------------------
(* calculate_wait_time *)

RECURSIVE SumTimes(_)
SumTimes(ws) == IF ws = <<>> THEN 0 ELSE Head(ws).total_time + SumTimes(Tail(ws))

\* Python's round() of the non-negative fraction a / b: half to even
Round(a, b) ==
    LET q == a \div b
        r == a % b
    IN IF 2 * r < b THEN q
       ELSE IF 2 * r > b THEN q + 1
       ELSE IF q % 2 = 0 THEN q ELSE q + 1

\* the list calculate_wait_time averages
Averaged == wait_times

\* statistics.mean(wait_times), divmod(average_wait, 1), seconds = frac * 60;
\* mean raises StatisticsError on an empty list.  Times are ticks of a tenth
\* of a minute: the mean is SumTimes / (10 * n) minutes.
Mean(ws) ==
    IF ws = <<>>
    THEN [kind |-> "StatisticsError", run |-> run, mins |-> 0, secs |-> 0, n |-> 0]
    ELSE LET n == Len(ws)
             total == SumTimes(ws)
         IN [kind |-> "value", run |-> run, mins |-> total \div (10 * n),
             secs |-> Round(60 * (total % (10 * n)), 10 * n), n |-> n]

\* main: calculate_wait_time() after run_airport returned; an exception it
\* raises is not caught
CalculateWaitTime ==
    /\ phase = "stopped"
    /\ summary.run # run
    /\ summary' = Mean(Averaged)
    /\ IF summary'.kind = "StatisticsError"
       THEN phase' = "crashed" /\ error' = "StatisticsError"
       ELSE UNCHANGED <<phase, error>>
    /\ UNCHANGED <<source, policy, num_lanes, script, run, now, running_time, queue, eid, lanes,
                   pass, i, mean_interarrival, wait_times, last, reqLog, startLog>>

-----------------------------------------------------------------------------

Next ==
    \/ RunAirport
    \/ StartCentral
    \/ StartAssigned
    \/ StartRandom
    \/ StartDynamic
    \/ BeginService
    \/ StageTimeout
    \/ StageEnds
    \/ MoveOn
    \/ Depart
    \/ Handoff
    \/ PopEnded
    \/ Crash
    \/ FirstGap
    \/ Arrival
    \/ Stop
    \/ CalculateWaitTime

Spec == Init /\ [][Next]_vars

\* the least-loaded program with main's four lanes
InitGreedy4 == InitOf(CoverScenarios \cup Greedy4Scenarios)

SpecGreedy4 == InitGreedy4 /\ [][Next]_vars

\* central_queue.py over main's horizon, the rate changing twice
InitRates == InitOf(CoverScenarios \cup RateScenarios)

SpecRates == InitRates /\ [][Next]_vars

\* env.run keeps stepping until the stop event is popped, and the caller
\* goes on to calculate_wait_time: a step that can be taken is taken
InitLong == InitOf(LongScenarios \cup ZeroLaneScenarios)

LiveSpec == InitLong /\ [][Next]_vars /\ WF_vars(Next)

-----------------------------------------------------------------------------
(* choose_dynamic_lane over every combination of resource states: a         *)
(* passenger created by the generator is about to call it.                  *)

\* the passengers at resource s of lane l
Holder(l, s) == 1 + 2 * (3 * l + s)
Waiter(l, s) == Holder(l, s) + 1

\* a capacity-1 resource that is idle (0), in use (1), in use with one
\* request waiting (2)
PoolStates == 0 .. 2

PoolIn(l, s, st) ==
    [capacity |-> LaneCapacity,
     users    |-> IF st >= 1 THEN <<Holder(l, s)>> ELSE <<>>,
     queue    |-> IF st >= 2 THEN <<Waiter(l, s)>> ELSE <<>>]

PassengerIn(ls, q) ==
    LET l == (q - 1) \div 6
        s == ((q - 1) % 6) \div 2
        pc == IF ls[l][s].users = <<q>> THEN "InService"
              ELSE IF ls[l][s].queue = <<q>> THEN "AwaitingStage"
              ELSE "Departed"
    IN [pc |-> pc, stage |-> s, lane |-> l, arrival_time |-> 0, spawned |-> 0]

InitChoose ==
    \E n \in 0 .. MaxLanes :
      \E st \in [(0 .. n - 1) \X Stages -> PoolStates] :
        /\ policy = "greedy"
        /\ num_lanes = n
        /\ script = <<>>
        /\ source = Source({}, 0)
        /\ run = 1
        /\ phase = "running"
        /\ error = "none"
        /\ now = 0
        /\ running_time = MainRunningTime
        /\ lanes = [l \in 0 .. n - 1 |-> [s \in Stages |-> PoolIn(l, s, st[<<l, s>>])]]
        /\ pass = [q \in 1 .. 6 * n + 1 |->
                      IF q = 6 * n + 1 THEN NewPassenger(-1, 0) ELSE PassengerIn(lanes, q)]
        /\ queue = <<Event(0, URGENT, 0, "Initialize", 6 * n + 1, 0, 0)>>
        /\ eid = 1
        /\ i = 1
        /\ mean_interarrival = MeanNonPeak
        /\ wait_times = <<>>
        /\ summary = NoSummary
        /\ last = NoEvent
        /\ reqLog = EmptyLog(lanes)
        /\ startLog = EmptyLog(lanes)

NextChoose == StartDynamic

SpecChoose == InitChoose /\ [][NextChoose]_vars

-----------------------------------------------------------------------------
(* Properties *)

Pools == {<<l, s>> : l \in DOMAIN lanes, s \in Stages}

Pool(r) == lanes[r[1]][r[2]]

Pending == {queue[k] : k \in 1 .. Len(queue)}

\* the Release events of pool r that are scheduled and not yet popped
PendingReleases(r) ==
    {e \in Pending : e.kind = "Release" /\ e.lane = r[1] /\ e.stage = r[2]}

\* position of passenger p in a log of passengers, 0 when absent
IndexIn(log, p) ==
    IF \E k \in 1 .. Len(log) : log[k] = p
    THEN CHOOSE k \in 1 .. Len(log) : log[k] = p
    ELSE 0

\* C1: in every reachable state every resource has 0 <= count <= capacity.
PoolWithinCapacity ==
    \A r \in Pools : 0 <= Count(Pool(r)) /\ Count(Pool(r)) <= Pool(r).capacity

\* a full resource has refused a request, which waits in its queue
PoolFullWithWaiter ==
    \E r \in Pools : Count(Pool(r)) = Pool(r).capacity /\ Pool(r).queue # <<>>

\* C2: on every resource, passengers begin service in the order of their
\* request() calls: when B has begun service and A requested before B, A has
\* begun service before B in event order, at a time no later than B's, and
\* strictly earlier on a resource of capacity 1.
\* (Each passenger requests a resource once, so this is: the k-th passenger to
\* begin service is the k-th that requested, at times that do not decrease.)
FCFS ==
    \A r \in Pools :
        /\ Len(startLog[r]) <= Len(reqLog[r])
        /\ \A k \in 1 .. Len(startLog[r]) :
              /\ startLog[r][k][1] = reqLog[r][k]
              /\ \A j \in 1 .. k - 1 : reqLog[r][j] # reqLog[r][k]
              /\ k > 1 =>
                    /\ startLog[r][k - 1][2] <= startLog[r][k][2]
                    /\ Pool(r).capacity = 1 => startLog[r][k - 1][2] < startLog[r][k][2]

\* three passengers have requested one capacity-1 resource, two of them had
\* to queue behind each other, and all three have begun service
ThreeServedInTurn ==
    \E r \in Pools :
        /\ Pool(r).capacity = 1
        /\ Len(startLog[r]) >= 3
        /\ startLog[r][2][2] > startLog[r][1][2]
        /\ startLog[r][3][2] > startLog[r][2][2]

\* C3: whenever a step puts a passenger into the users of a resource whose
\* queue was not empty, that passenger was the head of the queue: a request()
\* made after a release and before the Release event is popped does not get
\* the freed slot.
AtomicHandoff ==
    [][\A r \in Pools :
          (run' = run /\ Pool(r).queue # <<>>) =>
              \A k \in 1 .. Len(lanes'[r[1]][r[2]].users) :
                  LET u == lanes'[r[1]][r[2]].users[k] IN
                  (\A j \in 1 .. Count(Pool(r)) : Pool(r).users[j] # u) =>
                      u = Head(Pool(r).queue)]_vars

\* a passenger has just called request() on a capacity-1 resource between a
\* release() of it and the pop of the Release event: the slot went to the
\* earlier waiter, whose Request event is pending, and the caller is queued
AcquireBetweenReleaseAndHandoff ==
    \E r \in Pools :
        /\ Pool(r).capacity = 1
        /\ PendingReleases(r) # {}
        /\ last.kind \in {"Process", "Initialize"}
        /\ reqLog[r] # <<>>
        /\ reqLog[r][Len(reqLog[r])] = last.p
        /\ Pool(r).queue # <<>>
        /\ Pool(r).queue[Len(Pool(r).queue)] = last.p
        /\ \E e \in Pending :
              /\ e.kind = "Request" /\ e.lane = r[1] /\ e.stage = r[2]
              /\ e.p # last.p
              /\ IndexIn(reqLog[r], e.p) < IndexIn(reqLog[r], last.p)

\* C4 as stated: a resource's queue is non-empty only if count = capacity.
WaitersOnlyWhenFull ==
    \A r \in Pools : Pool(r).queue # <<>> => Count(Pool(r)) = Pool(r).capacity

\* simulated time is about to advance: the next event is due later than now
TimeAdvances == phase = "running" /\ queue # <<>> /\ Top.time > now

\* C4, amended: a resource's queue is non-empty only if count = capacity, or
\* its free slots are covered by Release events of this same instant that are
\* still to be popped; when simulated time is about to advance no resource has
\* both a free slot and a waiter.
WaitersOnlyWhenFullOrHandoffPending ==
    /\ \A r \in Pools :
          Pool(r).queue # <<>> =>
              \/ Count(Pool(r)) = Pool(r).capacity
              \/ /\ Pool(r).capacity - Count(Pool(r)) <= Cardinality(PendingReleases(r))
                 /\ \A e \in PendingReleases(r) : e.time = now
    /\ TimeAdvances => WaitersOnlyWhenFull

\* a release() has freed a slot of a resource with a waiter and the Release
\* event has not been popped yet
FreeSlotWithWaiter ==
    \E r \in Pools :
        /\ Pool(r).queue # <<>>
        /\ Count(Pool(r)) < Pool(r).capacity
        /\ PendingReleases(r) # {}

\* the completion records of passenger p of the current run
RecordsOf(ws, p) == {k \in 1 .. Len(ws) : ws[k].run = run /\ ws[k].p = p}

\* C5: within a run every passenger goes Created -> AwaitingStage(0) ->
\* InService(0) -> AwaitingStage(1) -> ... -> InService(2) -> Departed: its
\* stage never decreases or skips, it appends at most one completion record,
\* and once Departed it stays Departed.  (A passenger whose lane selection
\* raises leaves Created for Failed without entering any stage.)
StageOrder ==
    [][run' = run =>
          \A p \in DOMAIN pass :
              LET a == pass[p]
                  b == pass'[p]
              IN /\ \/ a = b
                    \/ a.pc = "Created" /\ b.pc = "AwaitingStage" /\ a.stage = 0 /\ b.stage = 0
                    \/ a.pc = "Created" /\ b.pc = "Failed" /\ b.stage = 0
                    \/ a.pc = "AwaitingStage" /\ b.pc = "InService" /\ b.stage = a.stage
                    \/ a.pc = "InService" /\ b.pc = "AwaitingStage" /\ a.stage < 2
                          /\ b.stage = a.stage + 1
                    \/ a.pc = "InService" /\ b.pc = "Departed" /\ a.stage = 2 /\ b.stage = 2
                 /\ a.pc = "Departed" => b.pc = "Departed"
                 /\ Cardinality(RecordsOf(wait_times', p)) <= 1
                 /\ Cardinality(RecordsOf(wait_times', p)) = (IF b.pc = "Departed" THEN 1 ELSE 0)]_vars

\* a passenger generated by passenger_arrivals has gone through the three
\* stages and departed
ArrivalDeparted ==
    \E p \in DOMAIN pass :
        /\ pass[p].pc = "Departed"
        /\ pass[p].stage = 2
        /\ pass[p].spawned > 0
        /\ \A s \in Stages : IndexIn(reqLog[<<pass[p].lane, s>>], p) # 0

\* C6: every completion record has departure_time > arrival_time and
\* total_time = departure_time - arrival_time; for the passengers of the
\* current run arrival_time is the time the passenger was spawned and
\* departure_time is the time it left the body screener, not later than now.
SojournTime ==
    \A k \in 1 .. Len(wait_times) :
        LET w == wait_times[k] IN
        /\ w.departure_time > w.arrival_time
        /\ w.total_time = w.departure_time - w.arrival_time
        /\ w.run = run =>
              /\ w.arrival_time = pass[w.p].spawned
              /\ w.departure_time <= now
              /\ \E j \in 1 .. Len(startLog[<<pass[w.p].lane, 2>>]) :
                    /\ startLog[<<pass[w.p].lane, 2>>][j][1] = w.p
                    /\ w.departure_time - startLog[<<pass[w.p].lane, 2>>][j][2]
                          \in ServiceTimes(2)

\* a passenger that arrived after time 0 has its record in wait_times
LateArrivalRecorded ==
    \E k \in 1 .. Len(wait_times) :
        /\ wait_times[k].run = run
        /\ wait_times[k].arrival_time > 0
        /\ pass[wait_times[k].p].pc = "Departed"

\* C7 as stated: when the run stops, every event due at or before the
\* horizon has been executed (only events due later than running_time remain).
RunsThroughHorizon ==
    phase = "stopped" => \A e \in Pending : e.time > running_time

\* C7, amended: the run executes every event due before running_time and
\* none due at or after it: every event popped while running is due before
\* the horizon, and when the run stops the events left are due at the
\* horizon or later.
RunsUpToHorizon ==
    /\ (phase = "running" /\ last.kind # "none") => last.time < running_time
    /\ phase = "stopped" =>
          /\ last.kind = "Until"
          /\ now = running_time
          /\ \A e \in Pending : e.time >= running_time

\* the run has stopped with an event due exactly at the horizon still queued
StoppedWithEventDueAtHorizon ==
    /\ phase = "stopped"
    /\ \E e \in Pending : e.time = running_time /\ e.kind = "Timeout"

\* the passengers of the current run that have departed
DepartedNow == {p \in DOMAIN pass : pass[p].pc = "Departed"}

\* C8: when a run has stopped at the horizon, wait_times holds exactly one
\* record for each passenger that departed during this run and nothing else
\* (a passenger still waiting or in service has none), and no record has a
\* departure_time greater than running_time.
RecordsAreThisRunsDepartures ==
    phase = "stopped" =>
        /\ {<<wait_times[k].run, wait_times[k].p>> : k \in 1 .. Len(wait_times)}
              = {<<run, p>> : p \in DepartedNow}
        /\ Len(wait_times) = Cardinality(DepartedNow)
        /\ \A k \in 1 .. Len(wait_times) : wait_times[k].departure_time <= running_time

\* the records appended during the current run
ThisRun(ws) == SelectSeq(ws, LAMBDA w : w.run = run)

\* C9: the completion records belong to one run invocation: from the second
\* run_airport call on, wait_times holds no record of an earlier run, and the
\* mean calculate_wait_time returns is the mean of the current run's records.
RecordsOwnedByRun ==
    /\ run >= 2 => \A k \in 1 .. Len(wait_times) : wait_times[k].run = run
    /\ (summary.run = run /\ ThisRun(wait_times) # <<>>) => summary = Mean(ThisRun(wait_times))

\* C10: a summary requested when no passenger has completed reports NoData
\* as a value: nothing is raised.
NoDataReported ==
    (run >= 1 /\ summary.run = run /\ wait_times = <<>>) =>
        /\ summary.kind = "NoData"
        /\ error = "none"
        /\ phase # "crashed"

\* effective load of a lane as the least-loaded policy is described: over its
\* three resources, the number of waiters plus 1 if the resource is full
LoadOf(lane) ==
    LET load(res) == Len(res.queue) + (IF Len(res.users) = res.capacity THEN 1 ELSE 0)
    IN load(lane[0]) + load(lane[1]) + load(lane[2])

\* the passengers run_airport creates with an assigned lane
Seeded(ps) == {p \in DOMAIN ps : ps[p].spawned = 0 /\ p <= num_lanes * InitialPerLane}

LowestIndexedLeastLoaded ==
    [][(Popping("Initialize") /\ policy = "greedy" /\ pass[Top.p].lane = -1
                              /\ DOMAIN lanes # {}) =>
          LET chosen == pass'[Top.p].lane IN
          /\ chosen = choose_dynamic_lane(lanes)
          /\ chosen \in DOMAIN lanes
          /\ \A l \in DOMAIN lanes :
                /\ LoadOf(lanes[chosen]) <= LoadOf(lanes[l])
                /\ l < chosen => LoadOf(lanes[chosen]) < LoadOf(lanes[l])]_vars

\* two lanes tied at a load above 0: the passenger went to lane 0
TieGoesToFirstLane ==
    /\ num_lanes >= 2
    /\ last.kind = "Initialize"
    /\ last.p \in DOMAIN pass
    /\ pass[last.p].spawned = 0
    /\ pass[last.p].pc = "AwaitingStage"
    /\ pass[last.p].lane = 0
    /\ LoadOf(lanes[0]) - 1 = LoadOf(lanes[1])
    /\ LoadOf(lanes[1]) > 0
    /\ Len(lanes[0][0].queue) = 2

\* the elements of a sequence
Range(f) == {f[k] : k \in DOMAIN f}

\* the events through which a passenger acquires, uses or releases a resource
ResourceEvents ==
    {e \in Range(queue) : e.kind \in {"Request", "InitializeStage", "Timeout", "Process"}}

\* every resource a passenger has requested, waits for, holds or is about to
\* release belongs to the passenger's lane
InOwnLane ==
    /\ \A l \in DOMAIN lanes : \A s \in Stages :
          \A p \in Range(reqLog[<<l, s>>]) \cup Range(lanes[l][s].users)
                      \cup Range(lanes[l][s].queue) :
              pass[p].lane = l
    /\ \A e \in ResourceEvents : pass[e.p].lane = e.lane
    /\ \A p \in DOMAIN pass :
          pass[p].pc \in {"AwaitingStage", "InService"} =>
              p \in Range(reqLog[<<pass[p].lane, pass[p].stage>>])

\* C13: with lanes (random or least-loaded choice) a passenger's lane is fixed
\* once, when it arrives, and never changes; every resource it requests,
\* waits for, holds or releases belongs to that one lane.
OneLanePerPassenger ==
    [][(policy # "central" /\ run' = run) =>
          /\ InOwnLane'
          /\ \A p \in DOMAIN pass :
                pass[p].pc # "Created" => pass'[p].lane = pass[p].lane]_vars

\* two lanes: a passenger of the second lane has requested that lane's three
\* resources in turn, and a passenger the generator created has joined it
ThroughSecondLane ==
    /\ policy # "central"
    /\ num_lanes = 2
    /\ \E p \in DOMAIN pass :
          /\ pass[p].lane = 1
          /\ \A s \in Stages : p \in Range(reqLog[<<1, s>>])
    /\ \E p \in DOMAIN pass \ Seeded(pass) :
          /\ pass[p].lane = 1
          /\ p \in Range(reqLog[<<1, 0>>])

\* C14: a run with zero lanes under a lane policy (random or least-loaded)
\* fails at setup with a configuration error, before any event is executed
\* or any passenger process is created.
ZeroLanesFailAtSetup ==
    (policy # "central" /\ num_lanes = 0 /\ run >= 1) =>
        /\ phase = "crashed"
        /\ error = "ConfigurationError"
        /\ last = NoEvent
        /\ pass = <<>>

\* the order in which two events are executed: by time, then priority, then
\* insertion number
RunsBefore(a, b) ==
    \/ a.time < b.time
    \/ a.time = b.time /\ a.prio < b.prio
    \/ a.time = b.time /\ a.prio = b.prio /\ a.eid < b.eid

\* C15 as stated: events of equal due time execute in the order in which they
\* were scheduled, whatever their priority: no event scheduled before the
\* event that has just run is still pending for the same time.
FIFOAmongEqualTimes ==
    (phase = "running" /\ last # NoEvent) =>
        \A e \in Range(queue) : ~(e.time = last.time /\ e.eid < last.eid)

\* C15: events execute in the order of (due time, priority, insertion
\* number): events of equal due time and equal priority run in the order in
\* which they were scheduled, and a process start (urgent) runs before the
\* other events due at its time: every step of a run executes the pending
\* event that is first in this order.  Insertion numbers are unique, so the
\* next event is always determined.
HeapOrder ==
    [][(phase = "running" /\ run' = run) =>
          /\ last' = Top
          /\ \A e \in Range(queue) : e = Top \/ RunsBefore(Top, e)
          /\ \A j, k \in DOMAIN queue' : j # k => queue'[j].eid # queue'[k].eid
          /\ \A e \in Range(queue') : e.eid < eid' /\ e.time >= now']_vars

\* a process start has just run ahead of an event that was scheduled
\* earlier for the same time
UrgentOvertook ==
    /\ phase = "running"
    /\ last.prio = URGENT
    /\ \E e \in Range(queue) :
          e.time = last.time /\ e.prio = NORMAL /\ e.eid < last.eid

\* C16: within a run the clock never decreases and changes only when
\* env.step pops the next event, to that event's time: requests, releases,
\* lane selection and env.process calls happen inside the step and leave now
\* alone; the completion records of the run are appended in non-decreasing
\* order of departure time.
ClockFollowsEvents ==
    [][run' = run =>
          /\ now' >= now
          /\ now' # now =>
                /\ phase = "running"
                /\ queue # <<>>
                /\ now' = Top.time
                /\ last' = Top
          /\ wait_times' # wait_times =>
                /\ last' = Top
                /\ wait_times'[Len(wait_times')].departure_time = now'
          /\ LET ws == ThisRun(wait_times') IN
             \A j, k \in DOMAIN ws :
                j < k => ws[j].departure_time <= ws[k].departure_time]_vars

\* two passengers of this run have departed at different times
DepartedOneAfterTheOther ==
    LET ws == ThisRun(wait_times) IN
    /\ Len(ws) >= 2
    /\ ws[1].departure_time < ws[2].departure_time
    /\ ws[2].departure_time <= now

\* the mean interarrival time by the time of day, in tenths of a minute:
\* 1.0 before minute 10, 0.5 from minute 10 to minute 50, 1.0 from minute 50
MeanAt(t) == IF t < 100 THEN 10 ELSE IF t < 500 THEN 5 ELSE 10

\* the time at which the gap now running began: the previous arrival, 0 for
\* the first gap
GapBegan == IF i = 0 THEN 0 ELSE pass[Len(pass)].spawned

HeldBy(p) == {r \in Pools : p \in Range(Pool(r).users)}
AwaitedBy(p) == {r \in Pools : p \in Range(Pool(r).queue)}

\* whoever holds or awaits a slot of a resource is at that resource's stage
\* in that lane, and does not both hold and await it: no passenger is at two
\* resources
AtMostOneSlot ==
    \A r \in Pools :
        \A p \in Range(Pool(r).users) \cup Range(Pool(r).queue) :
            /\ pass[p].lane = r[1]
            /\ pass[p].stage = r[2]
            /\ ~(p \in Range(Pool(r).users) /\ p \in Range(Pool(r).queue))

\* C18: a passenger holds at most one slot at any time: when its stage ends
\* it releases the stage's resource, which it holds (count >= 1), before it
\* requests the next stage's resource.
OneSlotAtATime ==
    [][/\ AtMostOneSlot'
       /\ Popping("Process") =>
             LET r == <<Top.lane, Top.stage>> IN
             /\ Count(Pool(r)) >= 1
             /\ HeldBy(Top.p) = {r}
             /\ AwaitedBy(Top.p) = {}
             /\ Top.p \notin Range(lanes'[r[1]][r[2]].users)
             /\ Count(lanes'[r[1]][r[2]]) = Count(Pool(r)) - 1]_vars

\* a passenger has given up the officer and holds a baggage screener
HoldsSecondStageOnly ==
    \E p \in DOMAIN pass :
        /\ pass[p].stage = 1
        /\ pass[p].pc = "InService"
        /\ \E l \in DOMAIN lanes :
              /\ p \in Range(reqLog[<<l, 0>>])
              /\ HeldBy(p) = {<<l, 1>>}

\* passenger p has been granted its request and has not resumed yet
Granted(p) ==
    \E e \in Pending : e.kind = "Request" /\ e.p = p /\ e.lane = pass[p].lane
                                          /\ e.stage = pass[p].stage

\* passenger p currently holds a slot: it is in service, or it has been
\* handed the slot and its resumption is still to run
HoldsSlot(p) ==
    \/ pass[p].pc = "InService"
    \/ pass[p].pc = "AwaitingStage" /\ Granted(p)

\* the passengers that hold a slot of resource r
Holders(r) ==
    {p \in DOMAIN pass : pass[p].lane = r[1] /\ pass[p].stage = r[2] /\ HoldsSlot(p)}

\* C19: in every reachable state the count of every resource is the number of
\* passengers that hold a slot of it, in service at its stage or granted and
\* not yet resumed: users lists exactly those passengers, each once.
CountIsHolders ==
    \A r \in Pools :
        LET holders == Holders(r) IN
        /\ Range(Pool(r).users) = holders
        /\ Count(Pool(r)) = Cardinality(holders)

\* a release has handed a slot to a waiting passenger that has not resumed
\* yet, while another passenger is in service at the same resource
HandedOverNotResumed ==
    /\ last.kind = "Release"
    /\ \E r \in Pools :
          \E p, q \in Range(Pool(r).users) :
              /\ pass[p].pc = "AwaitingStage"
              /\ Granted(p)
              /\ pass[q].pc = "InService"

\* the run over main's 60 minutes, asked for or made, with at least one lane
LongRun ==
    /\ DOMAIN lanes # {}
    /\ \/ script # <<>> /\ Head(script) = MainRunningTime
       \/ running_time = MainRunningTime

\* C20: no deadlock or starvation: with a horizon that is large enough and
\* finitely many arrivals, every passenger that has arrived, initial or
\* generated, eventually departs, under each of the three programs: from some
\* point on every passenger there is has departed, and stays so.
EveryPassengerDeparts ==
    <>[](LongRun => /\ run = 1
                    /\ pass # <<>>
                    /\ \A p \in DOMAIN pass : pass[p].pc = "Departed")

\* the run over 60 minutes has stopped at its horizon with the initial and the
\* generated passengers all departed, the last one after waiting in line
AllDepartedAtStop ==
    /\ LongRun
    /\ phase = "stopped"
    /\ i = source.arrivals
    /\ Len(pass) = InitialPerLane + i
    /\ \A p \in DOMAIN pass : pass[p].pc = "Departed"
    /\ wait_times[Len(wait_times)].p = Len(pass)
    /\ wait_times[Len(wait_times)].total_time > BoardingHigh + BaggageHigh + BodyHigh

====
